---- MODULE Spec2Model ----
(***************************************************************************)
(* Model of update_research_data.py: the identifier extractor              *)
(* (extract_scholar_userid), the publication fetcher (fetch_author_pubs)   *)
(* and the batch driver (main) with its output file.                       *)
(*                                                                         *)
(* Strings are modelled as sequences of tokens.  A URL is a record         *)
(*   [cell, head, toks]                                                    *)
(* cell = "str" for a text cell, "nan" for an empty (float NaN) cell;      *)
(* head is the text before the tokens: GoodHead is                         *)
(* "https://scholar.google.com/citations", BadHead is "http://[" (an       *)
(* unterminated IPv6 host, on which urlparse raises ValueError);           *)
(* toks is the rest of the string, over the alphabet Tokens, where "user"  *)
(* is the four-letter word and "a" is any other letter.                    *)
(***************************************************************************)
EXTENDS Integers, Sequences, FiniteSets, TLC

\* ------------------------------------------------------------------ bounds
MaxUrlLen == 6
MaxPubs == 2
MaxN == 2
MaxRows == 2
MaxMainPubs == 1

\* ------------------------------------------------------- program constants
PAPERS_PER_FACULTY == 5

\* --------------------------------------------------------- token strings
Tokens == {"?", "&", "=", "#", "user", "a"}
GoodHead == "https://scholar.google.com/citations"
BadHead == "http://["

RECURSIVE SeqsUpTo(_, _)
SeqsUpTo(S, k) ==
    IF k = 0 THEN {<<>>}
    ELSE LET shorter == SeqsUpTo(S, k - 1)
         IN  shorter \cup {Append(s, t) : s \in {q \in shorter : Len(q) = k - 1}, t \in S}

\* index of the first token equal to t, 0 when there is none (str.find)
IndexOfTok(s, t) ==
    IF \E i \in 1..Len(s) : s[i] = t
    THEN CHOOSE i \in 1..Len(s) : s[i] = t /\ \A j \in 1..(i - 1) : s[j] # t
    ELSE 0

\* str.split(sep) for a one-token separator: always at least one part
RECURSIVE SplitTok(_, _)
SplitTok(s, sep) ==
    LET i == IndexOfTok(s, sep)
    IN  IF i = 0 THEN <<s>>
        ELSE <<SubSeq(s, 1, i - 1)>> \o SplitTok(SubSeq(s, i + 1, Len(s)), sep)

\* index of the first occurrence of the substring "user=", 0 when there is none
FindUserEq(s) ==
    IF \E i \in 1..(Len(s) - 1) : s[i] = "user" /\ s[i + 1] = "="
    THEN CHOOSE i \in 1..(Len(s) - 1) :
            /\ s[i] = "user" /\ s[i + 1] = "="
            /\ \A j \in 1..(i - 1) : ~(s[j] = "user" /\ s[j + 1] = "=")
    ELSE 0

\* part.split("user=")[1]: the text between the first and the second "user="
AfterUserEq(part) ==
    LET i == FindUserEq(part)
        rest == SubSeq(part, i + 2, Len(part))
        j == FindUserEq(rest)
    IN  IF j = 0 THEN rest ELSE SubSeq(rest, 1, j - 1)

\* ------------------------------------------------- urllib.parse as used
\* urlparse(url).query: the fragment is cut at the first "#", then the query
\* is what follows the first "?" of the remainder
UrlQuery(toks) ==
    LET h == IndexOfTok(toks, "#")
        nofrag == IF h = 0 THEN toks ELSE SubSeq(toks, 1, h - 1)
        q == IndexOfTok(nofrag, "?")
    IN  IF q = 0 THEN <<>> ELSE SubSeq(nofrag, q + 1, Len(nofrag))

\* parse_qs(query) with keep_blank_values=False: the kept (name, value) pairs
\* in order; a field without "=" or with an empty value is dropped
RECURSIVE KeepPairs(_)
KeepPairs(fields) ==
    IF fields = <<>> THEN <<>>
    ELSE LET f == Head(fields)
             e == IndexOfTok(f, "=")
             kept == IF f = <<>> \/ e = 0 \/ e = Len(f)
                     THEN <<>>
                     ELSE <<[name |-> SubSeq(f, 1, e - 1), value |-> SubSeq(f, e + 1, Len(f))]>>
         IN  kept \o KeepPairs(Tail(fields))

ParseQs(query) == KeepPairs(SplitTok(query, "&"))

\* qs[name]: the list of the values of the pairs called name
QsValues(qs, name) ==
    LET F[k \in 0..Len(qs)] ==
            IF k = 0 THEN <<>>
            ELSE IF qs[k].name = name THEN Append(F[k - 1], qs[k].value) ELSE F[k - 1]
    IN  F[Len(qs)]

\* ------------------------------------------------ extract_scholar_userid
\* results: [tag, v] with tag "str" (the identifier v), "none" or "raise"
StrResult(v) == [tag |-> "str", v |-> v]
NoneResult == [tag |-> "none", v |-> <<>>]
RaiseResult == [tag |-> "raise", v |-> <<>>]

\* does urlparse(url) raise (AttributeError on a float cell, ValueError on
\* an unterminated "[" host)?
UrlparseRaises(url) == url.cell # "str" \/ url.head = BadHead

\* the body of the try block, lines 52-57
ExtractTryBody(url) ==
    IF UrlparseRaises(url) THEN RaiseResult
    ELSE LET users == QsValues(ParseQs(UrlQuery(url.toks)), <<"user">>)
             parts == SplitTok(url.toks, "?")
             hits == {k \in 1..Len(parts) : FindUserEq(parts[k]) # 0}
         IN  IF users # <<>> THEN StrResult(users[1])
             ELSE IF hits # {}
                  THEN LET k == CHOOSE k \in hits : \A m \in hits : k <= m
                       IN  StrResult(Head(SplitTok(AfterUserEq(parts[k]), "&")))
                  ELSE NoneResult

\* the try body without its handler
ExtractNoHandler(url) == ExtractTryBody(url)

\* extract_scholar_userid: "except Exception: pass", then "return None"
extract_scholar_userid(url) ==
    LET r == ExtractTryBody(url)
    IN  IF r.tag = "raise" THEN NoneResult ELSE r

\* "not user_id" for a returned value
NotUserId(r) == r.tag = "none" \/ (r.tag = "str" /\ r.v = <<>>)

\* ------------------------------------------------------- Python values
\* a value of a raw publication field: [t, i, s] with t = "none" (the key is
\* absent or holds None), "int" (the integer i) or "str" (the string s)
PyNone == [t |-> "none", i |-> 0, s |-> ""]
PyInt(k) == [t |-> "int", i |-> k, s |-> ""]
PyStr(x) == [t |-> "str", i |-> 0, s |-> x]

\* truth value of a Python value
Truthy(v) ==
    CASE v.t = "none" -> FALSE
      [] v.t = "int" -> v.i # 0
      [] v.t = "str" -> v.s # ""

\* a or b
PyOr(a, b) == IF Truthy(a) THEN a ELSE b

\* the year strings of the model, in lexicographic (code point) order
YearStrings == <<"2018", "2020", "in press", "n.d.">>
StrRank(x) == IF \E k \in 1..Len(YearStrings) : YearStrings[k] = x
              THEN CHOOSE k \in 1..Len(YearStrings) : YearStrings[k] = x
              ELSE 0

\* str(v).isdigit(): a non-negative integer, or a string of decimal digits
StrIsDigit(v) ==
    CASE v.t = "int" -> v.i >= 0
      [] v.t = "str" -> v.s \in {"2018", "2020", "12"}
      [] OTHER -> FALSE

\* int(v) where str(v).isdigit()
IntOf(v) ==
    CASE v.t = "int" -> v.i
      [] v.s = "2018" -> 2018
      [] v.s = "2020" -> 2020
      [] v.s = "12" -> 12
      [] OTHER -> 0

\* int(v) raises ValueError on a string that is no integer literal
IntRaises(v) == v.t = "str" /\ ~StrIsDigit(v)

\* a < b as sorted() evaluates it; TypeError between an int and a str
Comparable(a, b) == a.t = b.t
PyLess(a, b) == IF a.t = "int" THEN a.i < b.i ELSE StrRank(a.s) < StrRank(b.s)

\* ----------------------------------------------------- fetch_author_pubs
\* f"https://scholar.google.com/citations?user={user_id}"
CanonicalLink(id) == [cell |-> "str", head |-> GoodHead, toks |-> <<"?", "user", "=">> \o id]

\* the link of line 79 with the condition dropped: always the spreadsheet URL
LinkFromSheet(user_id, scholar_url) == scholar_url

\* line 79: the profile URL if user_id is truthy, else the spreadsheet URL
PubLink(user_id, scholar_url) ==
    IF user_id.tag = "str" /\ user_id.v # <<>> THEN CanonicalLink(user_id.v) ELSE scholar_url

\* lines 72-76: the fields read from one raw publication
YearOf(pub) == PyOr(PyOr(pub.pub_year, pub.year), PyInt(0))
TitleOf(pub) == IF pub.title.t = "none" THEN PyStr("N/A") ELSE pub.title
VenueOf(pub) == PyOr(PyOr(PyOr(pub.venue, pub.journal), pub.publisher), PyStr(""))
CitationsOf(pub) == IF pub.num_citations.t = "none" THEN PyInt(0) ELSE pub.num_citations

\* lines 81-87: the structured record of one raw publication
Structured(pub, user_id, scholar_url) ==
    [Title |-> TitleOf(pub),
     Journal |-> VenueOf(pub),
     Year |-> IF StrIsDigit(YearOf(pub)) THEN PyInt(IntOf(YearOf(pub))) ELSE YearOf(pub),
     Citations |-> IF Truthy(CitationsOf(pub)) THEN PyInt(IntOf(CitationsOf(pub))) ELSE PyInt(0),
     Link |-> PubLink(user_id, scholar_url)]

\* does line 85 raise on this publication?
StructuredRaises(pub) == Truthy(CitationsOf(pub)) /\ IntRaises(CitationsOf(pub))

\* the sort key of line 90
SortKey(x) == PyOr(x.Year, PyInt(0))

\* insert e into a list sorted descending, after every element not less than it
InsertDesc(acc, e) ==
    LET before == {k \in 1..Len(acc) : PyLess(SortKey(acc[k]), SortKey(e))}
        pos == IF before = {} THEN Len(acc) + 1
               ELSE CHOOSE k \in before : \A m \in before : k <= m
    IN  SubSeq(acc, 1, pos - 1) \o <<e>> \o SubSeq(acc, pos, Len(acc))

\* the list left as it is
Unsorted(xs) == xs

\* sorted(xs, key=..., reverse=True): stable, descending
SortedDesc(xs) ==
    LET F[k \in 0..Len(xs)] == IF k = 0 THEN <<>> ELSE InsertDesc(F[k - 1], xs[k])
    IN  F[Len(xs)]

\* sorted() raises TypeError when two keys of different types meet
SortRaises(xs) == \E j, k \in 1..Len(xs) : ~Comparable(SortKey(xs[j]), SortKey(xs[k]))

\* xs[:n] for n >= 0
Truncate(xs, n) == SubSeq(xs, 1, IF n < Len(xs) THEN n ELSE Len(xs))

\* the try block, lines 66-91: [exc, val]; source is what the external
\* library does for this author: [fails, pubs]
FetchTryBody(user_id, scholar_url, n, source) ==
    IF source.fails THEN [exc |-> TRUE, val |-> <<>>]
    ELSE LET pubs == source.pubs
             structured == [k \in 1..Len(pubs) |-> Structured(pubs[k], user_id, scholar_url)]
         IN  IF \E k \in 1..Len(pubs) : StructuredRaises(pubs[k])
             THEN [exc |-> TRUE, val |-> <<>>]
             ELSE IF SortRaises(structured) THEN [exc |-> TRUE, val |-> <<>>]
             ELSE [exc |-> FALSE, val |-> Truncate(SortedDesc(structured), n)]

\* the try block without its handler: the exception leaves the function
FetchNoHandler(user_id, scholar_url, n, source) == FetchTryBody(user_id, scholar_url, n, source)

\* fetch_author_pubs: "except Exception" returns []
fetch_author_pubs(user_id, scholar_url, n, source) ==
    LET r == FetchTryBody(user_id, scholar_url, n, source)
    IN  IF r.exc THEN [exc |-> FALSE, val |-> <<>>] ELSE r

\* ------------------------------------------------------------------ state
VARIABLES
    df,        \* the loaded spreadsheet: [columns, rows]
    pc,        \* where main() is
    idx,       \* number of rows the loop has consumed
    results,   \* the accumulator of line 112
    rowOf,     \* history: rowOf[k] is the row that produced results[k]
    fetched,   \* history: per consumed row, [called, source, ret]: was the fetcher
               \* called, what the external source did, what the fetcher returned
    calls,     \* history: the identifiers handed to the external source
    file,      \* output/faculty_publications.json
    file0,     \* history: the file when the run began
    url,       \* extractor run: the cell handed to extract_scholar_userid
    user_id,   \* extractor run: what it returned
    xpc,       \* extractor run: position
    fin,       \* fetcher run: the arguments and the external source's answer
    fout,      \* fetcher run: what fetch_author_pubs returned
    fpc        \* fetcher run: position

mainVars == <<df, pc, idx, results, rowOf, fetched, calls, file, file0>>
extractVars == <<url, user_id, xpc>>
fetchVars == <<fin, fout, fpc>>
vars == <<df, pc, idx, results, rowOf, fetched, calls, file, file0,
          url, user_id, xpc, fin, fout, fpc>>

\* ----------------------------------------------------------------- inputs
\* every URL cell of the extractor run
Urls ==
    {[cell |-> "str", head |-> h, toks |-> t] : h \in {GoodHead, BadHead}, t \in SeqsUpTo(Tokens, MaxUrlLen)}
    \cup {[cell |-> "nan", head |-> "", toks |-> <<>>]}

BasePub ==
    [pub_year |-> PyNone, year |-> PyNone, title |-> PyStr("T"), venue |-> PyStr("V"),
     journal |-> PyNone, publisher |-> PyNone, num_citations |-> PyInt(7)]

\* raw publications that differ in their year fields
YearPubs ==
    {[BasePub EXCEPT !.pub_year = a, !.year = b] :
        a \in {PyNone, PyInt(2021), PyStr("2020"), PyStr("n.d.")},
        b \in {PyNone, PyInt(0), PyStr("2018"), PyStr("in press")}}

\* raw publications that differ in their other fields
FieldPubs ==
    {[BasePub EXCEPT !.pub_year = PyInt(2021), !.venue = v, !.journal = j, !.publisher = q] :
        v \in {PyNone, PyStr(""), PyStr("V")}, j \in {PyNone, PyStr("J")}, q \in {PyNone, PyStr("P")}}
    \cup {[BasePub EXCEPT !.title = t] : t \in {PyNone, PyStr("T")}}
    \cup {[BasePub EXCEPT !.num_citations = c] : c \in {PyNone, PyInt(0), PyStr("12"), PyStr("n.d.")}}

RawPubs == YearPubs \cup FieldPubs

\* what the external library does for one author
SourceFails == [fails |-> TRUE, pubs |-> <<>>]
SourceReturns(pubs) == [fails |-> FALSE, pubs |-> pubs]

FetchSources == {SourceFails} \cup {SourceReturns(ps) : ps \in SeqsUpTo(RawPubs, MaxPubs)}

UrlA == [cell |-> "str", head |-> GoodHead, toks |-> <<"?", "user", "=", "a">>]
UrlB == [cell |-> "str", head |-> GoodHead, toks |-> <<"?", "user", "=", "a", "a", "&", "a", "=", "a">>]
UrlNoUser == [cell |-> "str", head |-> GoodHead, toks |-> <<"?", "a", "=", "a">>]
UrlNaN == [cell |-> "nan", head |-> "", toks |-> <<>>]

\* a spreadsheet cell of the name column: text, or a date (a pandas Timestamp,
\* which json cannot serialise)
NameText == [t |-> "str", s |-> "A. Rao"]
NameDate == [t |-> "timestamp", s |-> "2024-01-01"]

FacultyRows ==
    {[name |-> NameText, url |-> u] : u \in {UrlA, UrlB, UrlNoUser, UrlNaN}}
    \cup {[name |-> NameDate, url |-> UrlA]}

Pub(y) == [BasePub EXCEPT !.pub_year = y]
MainPubs == {Pub(PyInt(2021)), Pub(PyStr("2020"))}

\* one publication more than main() keeps, oldest first
LongList == [k \in 1..(PAPERS_PER_FACULTY + 1) |-> Pub(PyInt(2010 + k))]
\* an integer year and a non-numeric year side by side
MixedList == <<Pub(PyInt(2021)), Pub(PyStr("n.d."))>>

MainSources ==
    {SourceFails, SourceReturns(LongList), SourceReturns(MixedList)}
    \cup {SourceReturns(ps) : ps \in SeqsUpTo(MainPubs, MaxMainPubs)}

ExpectedCols == {"Faculty Name", "Google Scholar Profile URL"}
ColumnSets == {ExpectedCols \cup {"ORCID"}, {"Faculty Name", "ORCID"}, {"Google Scholar Profile URL"}}

\* the output file: absent, or holding records; complete is FALSE for a file
\* that was opened (truncated) and not yet fully written
NoFile == [exists |-> FALSE, complete |-> FALSE, recs |-> <<>>]

\* lines 130-137: one output record
OutputRecord(name, p) ==
    [FacultyName |-> name, Title |-> p.Title, Journal |-> p.Journal, Year |-> p.Year,
     Citations |-> p.Citations, Link |-> p.Link]

OldFile ==
    [exists |-> TRUE, complete |-> TRUE,
     recs |-> <<OutputRecord(NameText, Structured(BasePub, StrResult(<<"a">>), UrlA))>>]

IdleMain ==
    /\ df = [columns |-> {}, rows |-> <<>>]
    /\ pc = "idle" /\ idx = 0 /\ results = <<>> /\ rowOf = <<>> /\ fetched = <<>>
    /\ calls = <<>> /\ file = NoFile /\ file0 = NoFile
IdleExtract == url = UrlNaN /\ user_id = NoneResult /\ xpc = "idle"
IdleFetch ==
    /\ fin = [user_id |-> NoneResult, scholar_url |-> UrlNaN, n |-> 0, source |-> SourceFails]
    /\ fout = [exc |-> FALSE, val |-> <<>>]
    /\ fpc = "idle"

\* ------------------------------------------------------------ main()
\* after pd.read_excel (line 103): any spreadsheet, any earlier output file
Init ==
    /\ df \in [columns : ColumnSets, rows : SeqsUpTo(FacultyRows, MaxRows)]
    /\ pc = "start" /\ idx = 0 /\ results = <<>> /\ rowOf = <<>> /\ fetched = <<>>
    /\ calls = <<>>
    /\ file0 \in {NoFile, OldFile}
    /\ file = file0
    /\ IdleExtract /\ IdleFetch

\* any(...) in place of all(...) on line 107
HasSomeExpectedCol(columns) == ExpectedCols \cap columns # {}

\* line 107: all(col in df.columns for col in expected_cols)
HasExpectedCols(columns) == ExpectedCols \subseteq columns

\* lines 106-113: the column check, with its early return
CheckColumns ==
    /\ pc = "start"
    /\ pc' = IF HasExpectedCols(df.columns) THEN "loop" ELSE "returned"
    /\ UNCHANGED <<df, idx, results, rowOf, fetched, calls, file, file0>>
    /\ UNCHANGED <<extractVars, fetchVars>>

\* lines 129-137: the records one row adds
Flatten(name, pubs) == [k \in 1..Len(pubs) |-> OutputRecord(name, pubs[k])]

\* the new records put in front of the accumulator
AppendFront(acc, new) == new \o acc

\* results.append for each p in pubs
AppendAll(acc, new) == acc \o new

\* lines 115-139: one iteration of the loop.  An exception that leaves
\* extract_scholar_userid or fetch_author_pubs, or a KeyError on a missing
\* column, ends the run.
ProcessRow ==
    /\ pc = "loop"
    /\ idx < Len(df.rows)
    /\ \E source \in MainSources :
        LET row == df.rows[idx + 1]
            uid == extract_scholar_userid(row.url)
            ret == fetch_author_pubs(uid, row.url, PAPERS_PER_FACULTY, source)
        IN  IF ~(ExpectedCols \subseteq df.columns) \/ uid.tag = "raise"
            THEN /\ pc' = "crashed"
                 /\ UNCHANGED <<idx, results, rowOf, fetched, calls>>
            ELSE IF NotUserId(uid)
            THEN /\ idx' = idx + 1
                 /\ fetched' = Append(fetched, [called |-> FALSE, source |-> SourceFails, ret |-> <<>>])
                 /\ UNCHANGED <<pc, results, rowOf, calls>>
            ELSE IF ret.exc
            THEN /\ pc' = "crashed"
                 /\ calls' = Append(calls, uid.v)
                 /\ UNCHANGED <<idx, results, rowOf, fetched>>
            ELSE /\ idx' = idx + 1
                 /\ calls' = Append(calls, uid.v)
                 /\ fetched' = Append(fetched, [called |-> TRUE, source |-> source, ret |-> ret.val])
                 /\ results' = AppendAll(results, Flatten(row.name, ret.val))
                 /\ rowOf' = rowOf \o [k \in 1..Len(ret.val) |-> idx + 1]
                 /\ pc' = pc
    /\ UNCHANGED <<df, file, file0>>
    /\ UNCHANGED <<extractVars, fetchVars>>

\* line 142: open(OUTPUT_JSON, "w") creates the file or truncates it
OpenOutput ==
    /\ pc = "loop"
    /\ idx = Len(df.rows)
    /\ pc' = "dump"
    /\ file' = [exists |-> TRUE, complete |-> FALSE, recs |-> <<>>]
    /\ UNCHANGED <<df, idx, results, rowOf, fetched, calls, file0>>
    /\ UNCHANGED <<extractVars, fetchVars>>

\* can json encode this record?
Serialisable(rec) == rec.FacultyName.t = "str"

\* line 143 and the end of the with block: json.dump writes the records in
\* order; a value it cannot encode raises TypeError, and the file keeps what
\* was written before it
DumpJson ==
    /\ pc = "dump"
    /\ LET bad == {k \in 1..Len(results) : ~Serialisable(results[k])}
       IN  IF bad = {}
           THEN /\ file' = [exists |-> TRUE, complete |-> TRUE, recs |-> results]
                /\ pc' = "done"
           ELSE LET k == CHOOSE k \in bad : \A m \in bad : k <= m
                IN  /\ file' = [exists |-> TRUE, complete |-> FALSE, recs |-> SubSeq(results, 1, k - 1)]
                    /\ pc' = "dump_failed"
    /\ UNCHANGED <<df, idx, results, rowOf, fetched, calls, file0>>
    /\ UNCHANGED <<extractVars, fetchVars>>

Next == CheckColumns \/ ProcessRow \/ OpenOutput \/ DumpJson

Spec == Init /\ [][Next]_vars

\* ------------------------------------------- the extractor on its own
InitExtract ==
    /\ url \in Urls
    /\ user_id = NoneResult
    /\ xpc = "input"
    /\ IdleMain /\ IdleFetch

\* lines 120-124: main() calls the extractor on a cell and skips the row
\* when it gets nothing
ExtractRow ==
    /\ xpc = "input"
    /\ LET r == extract_scholar_userid(url)
       IN  /\ user_id' = r
           /\ xpc' = IF r.tag = "raise" THEN "raised" ELSE IF NotUserId(r) THEN "skip" ELSE "fetch"
    /\ UNCHANGED url
    /\ UNCHANGED <<mainVars, fetchVars>>

NextExtract == ExtractRow

SpecExtract == InitExtract /\ [][NextExtract]_vars

\* --------------------------------------------- the fetcher on its own
InitFetch ==
    /\ fin \in [user_id : {StrResult(<<"a">>), StrResult(<<>>)},
                scholar_url : {UrlB},
                n : 0..MaxN,
                source : FetchSources]
    /\ fout = [exc |-> FALSE, val |-> <<>>]
    /\ fpc = "input"
    /\ IdleMain /\ IdleExtract

\* one call of fetch_author_pubs
CallFetch ==
    /\ fpc = "input"
    /\ fout' = fetch_author_pubs(fin.user_id, fin.scholar_url, fin.n, fin.source)
    /\ fpc' = "returned"
    /\ UNCHANGED fin
    /\ UNCHANGED <<mainVars, extractVars>>

NextFetch == CallFetch

SpecFetch == InitFetch /\ [][NextFetch]_vars

\* ================================================================ claims
WellFormed(u) == u.cell = "str" /\ u.head = GoodHead
Columns == {"Faculty Name", "Google Scholar Profile URL"}

\* the records rows 1..k should have contributed, from the history
RECURSIVE Contributed(_)
Contributed(k) ==
    IF k = 0 THEN <<>>
    ELSE Contributed(k - 1) \o
         [j \in 1..Len(fetched[k].ret) |->
            [FacultyName |-> df.rows[k].name,
             Title |-> fetched[k].ret[j].Title,
             Journal |-> fetched[k].ret[j].Journal,
             Year |-> fetched[k].ret[j].Year,
             Citations |-> fetched[k].ret[j].Citations,
             Link |-> fetched[k].ret[j].Link]]

\* row k failed: no identifier was extracted, or the external source raised
RowFailed(k) == ~fetched[k].called \/ fetched[k].source.fails

\* C1: a per-record error never aborts the batch.  With both columns present,
\* no exception ever leaves the loop, the loop always has a next row to take
\* or the file to open (so it reaches the JSON write), a failing row contributes no record and
\* the accumulator is exactly the concatenation, in row order, of what each
\* row's own fetch returned.
C1_NoAbort ==
    Columns \subseteq df.columns =>
        /\ pc # "crashed"
        /\ pc = "loop" => idx <= Len(df.rows)
        /\ pc \in {"dump", "done", "dump_failed"} => idx = Len(df.rows)
        /\ Len(fetched) = idx
        /\ \A k \in 1..idx : RowFailed(k) => fetched[k].ret = <<>>
        /\ \A k \in 1..idx : (~fetched[k].called) <=> NotUserId(extract_scholar_userid(df.rows[k].url))
        /\ results = Contributed(idx)

\* a finished run in which one row's external call raised and another row
\* still delivered its records
C1_Witness ==
    /\ pc = "done"
    /\ \E j, k \in 1..idx :
        /\ fetched[j].called /\ fetched[j].source.fails
        /\ fetched[k].called /\ fetched[k].ret # <<>>
    /\ file.recs = results

\* C2: every record of the accumulator, and every record written to the
\* file, links to the canonical profile URL of the identifier extracted from
\* its own row; the fetcher is never called with an empty identifier.
C2_LinkCanonical ==
    /\ \A k \in 1..Len(results) :
        LET id == extract_scholar_userid(df.rows[rowOf[k]].url)
        IN  /\ id.tag = "str" /\ id.v # <<>>
            /\ results[k].Link =
                 [cell |-> "str", head |-> "https://scholar.google.com/citations",
                  toks |-> <<"?", "user", "=">> \o id.v]
    /\ \A k \in 1..Len(calls) : calls[k] # <<>>
    /\ pc \in {"dump", "done", "dump_failed"} =>
        \A k \in 1..Len(file.recs) : file.recs[k].Link = results[k].Link

\* a written file with a record whose spreadsheet URL is not the canonical one
C2_Witness ==
    /\ pc = "done"
    /\ \E k \in 1..Len(file.recs) :
        /\ df.rows[rowOf[k]].url = UrlB
        /\ file.recs[k].Link # UrlB

\* descending by Year: integers by value, strings by code point order, and
\* never an integer beside a string
YearGeq(a, b) ==
    \/ a.t = "int" /\ b.t = "int" /\ a.i >= b.i
    \/ a.t = "str" /\ b.t = "str" /\ StrRank(a.s) >= StrRank(b.s)
YearDescending(recs) == \A j, k \in 1..Len(recs) : j < k => YearGeq(recs[j].Year, recs[k].Year)

\* C3: whatever the external source returns and whatever n is, the list
\* fetch_author_pubs returns is sorted by Year descending and has at most n
\* entries.
C3_SortedAndBounded ==
    fpc = "returned" =>
        /\ ~fout.exc
        /\ Len(fout.val) <= fin.n
        /\ YearDescending(fout.val)

\* two publications handed over oldest first, one kept: the newer one
C3_Witness ==
    /\ fpc = "returned"
    /\ Len(fin.source.pubs) = 2 /\ fin.n = 1 /\ Len(fout.val) = 1
    /\ fin.source.pubs[1].pub_year = PyStr("2020")
    /\ fin.source.pubs[2].pub_year = PyInt(2021)
    /\ fout.val[1].Year = PyInt(2021)

IsPrefix(s, t) == Len(s) <= Len(t) /\ SubSeq(t, 1, Len(s)) = s

OrderedOutput ==
    /\ Len(rowOf) = Len(results)
    /\ \A j, k \in 1..Len(results) :
        j < k =>
            /\ rowOf[j] <= rowOf[k]
            /\ rowOf[j] = rowOf[k] => YearGeq(results[j].Year, results[k].Year)
    /\ \A k \in 1..Len(results) : results[k].FacultyName = df.rows[rowOf[k]].name
    /\ pc = "done" => file.recs = results

\* C4: the records are in row order, each row's records contiguous and
\* descending by Year; a step only ever appends to the accumulator, and the
\* finished file holds the accumulator as it is.
C4_Order == [][IsPrefix(results, results') /\ IsPrefix(rowOf, rowOf') /\ OrderedOutput']_vars

\* a finished file with records of two rows, the first row's five in
\* descending order
C4_Witness ==
    /\ pc = "done"
    /\ Len(file.recs) > PAPERS_PER_FACULTY
    /\ rowOf[1] = 1 /\ rowOf[PAPERS_PER_FACULTY] = 1 /\ rowOf[Len(rowOf)] = 2
    /\ file.recs[1].Year.i > file.recs[PAPERS_PER_FACULTY].Year.i

\* the value of the first query parameter named "user" that holds a value
UserParams(u) == QsValues(ParseQs(UrlQuery(u.toks)), <<"user">>)

\* C5: on a well-formed URL string the extractor returns the value of the
\* "user" query parameter when there is one, and null when there is none
\* (another parameter whose name ends in "user", or an empty "user", is none).
C5_ExtractExact ==
    (xpc # "input" /\ WellFormed(url)) =>
        IF UserParams(url) # <<>>
        THEN user_id = StrResult(UserParams(url)[1])
        ELSE user_id = NoneResult

\* C6: with a required column missing, main() returns early: no row is
\* consumed, the external source is never called, the file is untouched.
C6_MissingColumn ==
    ~(Columns \subseteq df.columns) =>
        /\ pc \in {"start", "returned"}
        /\ idx = 0 /\ results = <<>> /\ fetched = <<>>
        /\ calls = <<>>
        /\ file = file0

\* returned early, with rows waiting and an earlier output file in place
C6_Witness ==
    /\ pc = "returned"
    /\ "Google Scholar Profile URL" \notin df.columns
    /\ Len(df.rows) > 0
    /\ file = OldFile

\* C7: the file always holds its previous content or the complete array of
\* all accumulated records.
C7_AtomicWrite ==
    \/ file = file0
    \/ /\ file.exists /\ file.complete
       /\ file.recs = results
       /\ idx = Len(df.rows)

\* C8: the extractor never raises; a cell that is not a string, or a string
\* urlparse rejects, gives null, and main() skips the row.
C8_ExtractNeverRaises ==
    xpc # "input" =>
        /\ xpc # "raised"
        /\ user_id.tag \in {"none", "str"}
        /\ (url.cell # "str" \/ url.head = BadHead) => (user_id = NoneResult /\ xpc = "skip")

\* an empty cell, skipped; C8
C8_Witness == xpc = "skip" /\ url.cell = "nan" /\ user_id = NoneResult

\* s without its k-th element
RemoveAt(s, k) == SubSeq(s, 1, k - 1) \o SubSeq(s, k + 1, Len(s))

CitationsClean(pubs) ==
    \A k \in 1..Len(pubs) : pubs[k].num_citations.t = "str" => pubs[k].num_citations.s = "12"

LacksYear(pub) == pub.pub_year.t = "none" /\ pub.year.t = "none"
LacksVenue(pub) == pub.venue.t = "none" /\ pub.journal.t = "none" /\ pub.publisher.t = "none"
LacksCitations(pub) == pub.num_citations.t = "none"

\* the run of the fetcher is one in which nothing is cut off and the
\* external calls succeed
FetchedAll == fpc = "returned" /\ ~fin.source.fails /\ Len(fin.source.pubs) <= fin.n

\* C9: a missing year gives Year 0, missing venue fields give Journal "",
\* missing citations give 0; and a publication lacking a field costs neither
\* itself nor the others their place: if the others alone come back in full,
\* so does the whole list, with the defaulted record in it.
C9_DefaultsNeverDrop ==
    (FetchedAll /\ CitationsClean(fin.source.pubs)) =>
        \A k \in 1..Len(fin.source.pubs) :
            LET pubs == fin.source.pubs
                pub == pubs[k]
                rec == Structured(pub, fin.user_id, fin.scholar_url)
                others == fetch_author_pubs(fin.user_id, fin.scholar_url, fin.n,
                                            SourceReturns(RemoveAt(pubs, k)))
            IN  /\ LacksYear(pub) => rec.Year = PyInt(0)
                /\ LacksVenue(pub) => rec.Journal = PyStr("")
                /\ LacksCitations(pub) => rec.Citations = PyInt(0)
                /\ ((LacksYear(pub) \/ LacksVenue(pub) \/ LacksCitations(pub))
                    /\ Len(others.val) = Len(pubs) - 1) =>
                        /\ Len(fout.val) = Len(pubs)
                        /\ \E j \in 1..Len(fout.val) : fout.val[j] = rec

NonNumericYear(pub) == YearOf(pub).t = "str" /\ YearOf(pub).s \in {"in press", "n.d."}

\* C10: a publication whose year is no integer string is kept, its Year
\* passed through: when nothing is cut off it is in the returned list, and
\* every publication of the list is returned with it.
C10_NonNumericYearKept ==
    (FetchedAll /\ CitationsClean(fin.source.pubs)) =>
        \A k \in 1..Len(fin.source.pubs) :
            NonNumericYear(fin.source.pubs[k]) =>
                /\ Len(fout.val) = Len(fin.source.pubs)
                /\ \E j \in 1..Len(fout.val) : fout.val[j].Year = YearOf(fin.source.pubs[k])

====
